---- MODULE Spec2Model ----
(***************************************************************************)
(* A model of the lab-notebook core of jmelloy/labview:                    *)
(*   - the content-addressable blob store (codex/core/storage.py),         *)
(*   - the entry state machine and its lineage graph                       *)
(*     (codex/core/entry.py) over the relational tables of                 *)
(*     codex/db/models.py and codex/db/operations.py,                      *)
(*   - the integration registry (codex/integrations/registry.py).          *)
(*                                                                         *)
(* Python dicts are functions whose DOMAIN is the key set; Optional        *)
(* results are sets with at most one element; the entry id 0 stands for    *)
(* None.  Timestamps are abstracted to the single value "ts".              *)
(***************************************************************************)
EXTENDS Integers, Sequences, FiniteSets, TLC

(***************************************************************************)
(* Bounds of the model.                                                    *)
(***************************************************************************)
\* longest byte sequence handed to the store
MaxLen == 1
\* largest byte value
MaxByte == 1
\* blobs the disk holds at most (guards StorageStore)
MaxBlobs == 2
\* entry ids the id generator hands out at most
MaxEntries == 2
\* concurrent callers, each holding at most one in-memory Entry object
MaxTasks == 1
\* artifact descriptors in one integration result
MaxArtifacts == 2
\* execute() calls made at most (guards ExecuteBegin)
MaxRuns == 2
\* callers that run StorageManager.store at the same time
MaxCallers == 2
\* entries of the lineage graphs that are traversed
MaxNodes == 4
\* largest depth asked of a traversal
MaxDepth == 3
\* edge rows added through the database manager at most (guards AddLineageEdge)
MaxEdges == 4

Byte == 0..MaxByte
Data == UNION {[1..n -> Byte] : n \in 0..MaxLen}
MimeTypes == {"image/png", "text/plain"}

(***************************************************************************)
(* Python dicts.                                                           *)
(***************************************************************************)
EmptyDict == [k \in {} |-> 0]
Put(d, k, v) == [x \in (DOMAIN d) \cup {k} |-> IF x = k THEN v ELSE d[x]]
Has(d, k) == k \in DOMAIN d

(***************************************************************************)
(* State.                                                                  *)
(***************************************************************************)
VARIABLES
    blobs,      \* blobs/<..>/<hex>: hex digest -> bytes of the files that exist
    thumbs,     \* thumbnails/<..>/<hex>.thumb.jpg: digests that have one
    nwrites,    \* history: write_bytes calls per digest since the blob last did not exist
    stored,     \* history: [data, ref] of store calls whose content was not deleted since
    entries,    \* table entries: id -> row
    lineage,    \* table entry_lineage: set of rows
    artifacts,  \* table artifacts: set of rows
    nextId,     \* ids handed out so far (ULIDs are unique and increasing)
    obj,        \* per task: the in-memory Entry object it holds (id 0: none)
    pc,         \* per task: "idle", or "awaiting" inside integration.execute
    attempt,    \* history, per task: statuses assigned by its current execute() call
    runs,       \* history: execute() calls made so far
    storing,    \* per caller: its position inside StorageManager.store and its locals
    integrations, \* IntegrationRegistry._integrations: entry type -> implementation
    variables,  \* table integration_variables: <<integration_type, name>> -> stored text
    last        \* history: the operation that ran last and what it returned

vars == <<blobs, thumbs, nwrites, stored, entries, lineage, artifacts, nextId,
          obj, pc, attempt, runs, storing, integrations, variables, last>>

storeVars == <<blobs, thumbs, nwrites, stored>>
dbVars == <<entries, lineage, artifacts, nextId>>
taskVars == <<obj, pc, attempt, runs, storing, integrations, variables>>

(***************************************************************************)
(* Content store                                                           *)
(***************************************************************************)
\* a plausible slip: a digest that keeps too little of the content
DigestOfLength(b) == Len(b)

\* hashlib.sha256(data).hexdigest(): a collision-free digest of the bytes,
\* here the bytes read as digits 1..MaxByte+1 of a number.
RECURSIVE sha256(_)
sha256(b) ==
    IF b = <<>> THEN 0
    ELSE sha256(SubSeq(b, 1, Len(b) - 1)) * (MaxByte + 2) + b[Len(b)] + 1

Digests == {sha256(b) : b \in Data}

\* f"sha256:{hash_value}" and the bare hex string
Ref(h) == [prefix |-> TRUE, hex |-> h]
Bare(h) == [prefix |-> FALSE, hex |-> h]
Refs == {Ref(h) : h \in Digests} \cup {Bare(h) : h \in Digests}

\* if hash_value.startswith("sha256:"): hash_value = hash_value[7:]
StripPrefix(ref) == ref.hex

\* blob_path.exists()
BlobExists(bl, h) == h \in DOMAIN bl

\* a plausible slip: the write without the existence check
StoreWritesAlways(bl, data) == TRUE

\* if not blob_path.exists(): blob_path.write_bytes(data)
StoreWrites(bl, data) == ~BlobExists(bl, sha256(data))

BlobsAfterStore(bl, data) ==
    IF StoreWrites(bl, data) THEN Put(bl, sha256(data), data) ELSE bl

\* artifact_type.startswith("image/")
IsImage(mime) == mime = "image/png"

\* a plausible slip: _generate_thumbnail without its try/except
ThumbnailUnguarded(decodes) == ~decodes

\* _generate_thumbnail raises to store: never, its body is inside
\* try: ... except Exception: pass
GenerateThumbnailRaises(decodes) == FALSE

\* the thumbnail is written when the type is an image, none exists yet and
\* PIL decodes the bytes; every failure is swallowed
ThumbsAfterStore(th, data, mime, decodes) ==
    IF IsImage(mime) /\ decodes THEN th \cup {sha256(data)} ELSE th

\* store raises when the thumbnail call it makes for an image raises
StoreRaises(mime, decodes) == IsImage(mime) /\ GenerateThumbnailRaises(decodes)

\* StorageManager.retrieve: the bytes, or None
retrieve(bl, ref) ==
    IF BlobExists(bl, StripPrefix(ref)) THEN {bl[StripPrefix(ref)]} ELSE {}

\* StorageManager.get_thumbnail: the thumbnail (here: of which blob), or None
get_thumbnail(th, ref) ==
    IF StripPrefix(ref) \in th THEN {StripPrefix(ref)} ELSE {}

\* StorageManager.get_size: the size in bytes, or None
get_size(bl, ref) ==
    IF BlobExists(bl, StripPrefix(ref)) THEN {Len(bl[StripPrefix(ref)])} ELSE {}

\* StorageManager.exists
exists(bl, ref) == BlobExists(bl, StripPrefix(ref))

Without(f, k) == [x \in (DOMAIN f) \ {k} |-> f[x]]

\* the history variables after a store of data
NWritesAfterStore(nw, bl, data) ==
    IF StoreWrites(bl, data)
    THEN Put(nw, sha256(data), (IF Has(nw, sha256(data)) THEN nw[sha256(data)] ELSE 0) + 1)
    ELSE nw
StoredAfterStore(st, data) == st \cup {[data |-> data, ref |-> Ref(sha256(data))]}

\* StorageManager.store(data, artifact_type)
StorageStore(data, mime, decodes) ==
    /\ Cardinality(DOMAIN blobs \cup {sha256(data)}) <= MaxBlobs
    /\ blobs' = BlobsAfterStore(blobs, data)
    /\ thumbs' = ThumbsAfterStore(thumbs, data, mime, decodes)
    /\ nwrites' = NWritesAfterStore(nwrites, blobs, data)
    /\ stored' = IF StoreRaises(mime, decodes) THEN stored
                  ELSE StoredAfterStore(stored, data)
    /\ last' = [op |-> "store", data |-> data, mime |-> mime, decodes |-> decodes,
                raised |-> StoreRaises(mime, decodes),
                ref |-> Ref(sha256(data)),
                wrote |-> StoreWrites(blobs, data),
                prior |-> {p.ref : p \in {q \in stored : q.data = data}},
                thumbnailed |-> thumbs' \ thumbs]
    /\ UNCHANGED <<dbVars, taskVars>>

\* StorageManager.retrieve(hash_value)
StorageRetrieve(ref) ==
    /\ last' = [op |-> "retrieve", ref |-> ref, result |-> retrieve(blobs, ref)]
    /\ UNCHANGED <<storeVars, dbVars, taskVars>>

\* StorageManager.exists(hash_value)
StorageExists(ref) ==
    /\ last' = [op |-> "exists", ref |-> ref, result |-> exists(blobs, ref)]
    /\ UNCHANGED <<storeVars, dbVars, taskVars>>

\* a plausible slip: a delete that leaves the thumbnail
ThumbsKeptOnDelete(th, ref) == th

\* if thumb_path.exists(): thumb_path.unlink()
ThumbsAfterDelete(th, ref) == th \ {StripPrefix(ref)}

\* StorageManager.delete(hash_value)
StorageDelete(ref) ==
    /\ blobs' = Without(blobs, StripPrefix(ref))
    /\ thumbs' = ThumbsAfterDelete(thumbs, ref)
    /\ nwrites' = Without(nwrites, StripPrefix(ref))
    /\ stored' = {p \in stored : p.ref.hex # StripPrefix(ref)}
    /\ last' = [op |-> "delete_blob", ref |-> ref,
                result |-> BlobExists(blobs, StripPrefix(ref)),
                again |-> last.op = "delete_blob" /\ StripPrefix(last.ref) = StripPrefix(ref)]
    /\ UNCHANGED <<dbVars, taskVars>>

(***************************************************************************)
(* Initial state: an initialized, empty workspace with one page.           *)
(***************************************************************************)
\* the integrations registered when the package is imported
BuiltIns ==
    [custom |-> "CustomIntegration", api_call |-> "APICallIntegration",
     database_query |-> "DatabaseQueryIntegration", graphql |-> "GraphQLIntegration",
     comfyui |-> "ComfyUIIntegration"]

Tasks == 1..MaxTasks
NoObj == [id |-> 0]
Callers == 1..MaxCallers
NotStoring == [at |-> "idle"]

Init ==
    /\ blobs = EmptyDict
    /\ thumbs = {}
    /\ nwrites = EmptyDict
    /\ stored = {}
    /\ entries = EmptyDict
    /\ lineage = {}
    /\ artifacts = {}
    /\ nextId = 0
    /\ obj = [t \in Tasks |-> NoObj]
    /\ pc = [t \in Tasks |-> "idle"]
    /\ attempt = [t \in Tasks |-> <<>>]
    /\ runs = 0
    /\ storing = [c \in Callers |-> NotStoring]
    /\ integrations = BuiltIns
    /\ variables = EmptyDict
    /\ last = [op |-> "init"]

(***************************************************************************)
(* StorageManager.store step by step, for callers that run it at the same  *)
(* time (threads or processes over one storage directory).  The steps are  *)
(* the file system calls: blob_path.exists(), the open and the write of    *)
(* write_bytes, and the rest of the call up to its return.                 *)
(***************************************************************************)
\* the contents callers store at the same time: no bytes, and the longest
\* run of zero bytes
SharedData == {<<>>, [i \in 1..MaxLen |-> 0]}

\* a plausible slip: a write that insists on creating the file
WriteModeExclusive == "xb"

\* Path.write_bytes opens the file with mode "wb": created if missing,
\* truncated if present
WriteMode == "wb"

\* open(path, mode): only exclusive creation raises on a file that exists
OpenRaises(bl, h, mode) == mode = "xb" /\ BlobExists(bl, h)

\* hash_value = sha256(data); subdir.mkdir(exist_ok=True); blob_path.exists()
StoreCheck(c, data, mime) ==
    /\ storing[c].at \in {"idle", "returned", "raised"}
    /\ Cardinality(DOMAIN blobs \cup {sha256(data)}) <= MaxBlobs
    /\ storing' = [storing EXCEPT ![c] =
                      [at |-> IF BlobExists(blobs, sha256(data)) THEN "written"
                              ELSE "checked",
                       data |-> data, mime |-> mime]]
    /\ last' = [op |-> "store_check"]
    /\ UNCHANGED <<storeVars, dbVars, obj, pc, attempt, runs, integrations, variables>>

\* write_bytes, the open: the file is there and empty afterwards
StoreOpen(c) ==
    /\ storing[c].at = "checked"
    /\ LET h == sha256(storing[c].data)
       IN IF OpenRaises(blobs, h, WriteMode)
          THEN /\ storing' = [storing EXCEPT ![c].at = "raised"]
               /\ UNCHANGED <<blobs, nwrites, integrations, variables>>
          ELSE /\ storing' = [storing EXCEPT ![c].at = "opened"]
               /\ blobs' = Put(blobs, h, <<>>)
               /\ nwrites' = Put(nwrites, h, (IF Has(nwrites, h) THEN nwrites[h] ELSE 0) + 1)
    /\ last' = [op |-> "store_open"]
    /\ UNCHANGED <<thumbs, stored, dbVars, obj, pc, attempt, runs, integrations, variables>>

\* write_bytes, the write from offset 0 and the close
StoreWrite(c) ==
    /\ storing[c].at = "opened"
    /\ blobs' = Put(blobs, sha256(storing[c].data), storing[c].data)
    /\ storing' = [storing EXCEPT ![c].at = "written"]
    /\ last' = [op |-> "store_write"]
    /\ UNCHANGED <<thumbs, nwrites, stored, dbVars, obj, pc, attempt, runs, integrations, variables>>

\* the thumbnail and the return of the reference
StoreReturn(c, decodes) ==
    /\ storing[c].at = "written"
    /\ thumbs' = ThumbsAfterStore(thumbs, storing[c].data, storing[c].mime, decodes)
    /\ stored' = StoredAfterStore(stored, storing[c].data)
    /\ storing' = [storing EXCEPT ![c] =
                      [at |-> "returned", data |-> storing[c].data,
                       ref |-> Ref(sha256(storing[c].data))]]
    /\ last' = [op |-> "store_return"]
    /\ UNCHANGED <<blobs, nwrites, dbVars, obj, pc, attempt, runs, integrations, variables>>

(***************************************************************************)
(* Integration dispatch                                                    *)
(***************************************************************************)
EntryTypes == {"custom", "shell"}

\* the entry types of IntegrationRegistry._integrations after the built-in
\* registrations
Registered == {"custom", "api_call", "database_query", "graphql", "comfyui"}

\* the implementations handed to register, and the types they are
\* registered for: api_call is registered by registry.py and by api_call.py
Implementations == {"CustomIntegration", "APICallIntegration", "PluginA"}
RegistryTypes == EntryTypes \cup {"api_call"}

\* a plausible slip: a registration that keeps the implementation that is there
RegisterKeepsFirst(reg, entryType, impl) ==
    IF Has(reg, entryType) THEN reg ELSE Put(reg, entryType, impl)

\* cls._integrations[entry_type] = integration_class
IntegrationsAfterRegister(reg, entryType, impl) == Put(reg, entryType, impl)

\* IntegrationRegistry.get: the implementation, or nothing when it raises
registry_get(reg, entryType) == IF Has(reg, entryType) THEN {reg[entryType]} ELSE {}

\* IntegrationRegistry.has_integration and list_integrations
has_integration(reg, entryType) == entryType \in DOMAIN reg
list_integrations(reg) == DOMAIN reg

\* a plausible slip: a lookup that never raises
RegistryGetNeverRaises(entryType) == FALSE

\* IntegrationRegistry.get raises ValueError for an unregistered type
RegistryGetRaises(entryType) == registry_get(integrations, entryType) = {}
RegistryGetMessage(entryType) == "No integration registered for: " \o entryType

\* IntegrationRegistry.register(entry_type)(integration_class)
Register(entryType, impl) ==
    /\ integrations' = IntegrationsAfterRegister(integrations, entryType, impl)
    /\ last' = [op |-> "register", type |-> entryType, impl |-> impl]
    /\ UNCHANGED <<storeVars, dbVars, obj, pc, attempt, runs, storing, variables>>

\* IntegrationRegistry.get, has_integration and list_integrations asked
\* about an entry type
Resolve(entryType) ==
    /\ last' = [op |-> "resolve", type |-> entryType,
                result |-> registry_get(integrations, entryType),
                has |-> has_integration(integrations, entryType),
                listed |-> list_integrations(integrations)]
    /\ UNCHANGED <<storeVars, dbVars, taskVars>>

(***************************************************************************)
(* JSON values of inputs: a number, or an object of numbers.               *)
(***************************************************************************)
Num(n) == [t |-> "num", n |-> n]
Obj(d) == [t |-> "obj", o |-> d]
IsDict(v) == v.t = "obj"

\* {**a, **b}
DictUnion(a, b) ==
    [k \in (DOMAIN a) \cup (DOMAIN b) |-> IF k \in DOMAIN b THEN b[k] ELSE a[k]]

\* a plausible slip: the overrides laid over the inputs key by key, objects
\* replaced like any other value
MergeReplacesObjects(inputs, overrides) == DictUnion(inputs, overrides)

\* Entry.create_variation, the merge of input_overrides into a copy of inputs
MergeInputs(inputs, overrides) ==
    [k \in (DOMAIN inputs) \cup (DOMAIN overrides) |->
        IF k \in DOMAIN overrides
        THEN IF IsDict(overrides[k]) /\ k \in DOMAIN inputs /\ IsDict(inputs[k])
             THEN Obj(DictUnion(inputs[k].o, overrides[k].o))
             ELSE overrides[k]
        ELSE inputs[k]]

InputChoices == {[seed |-> Num(1)], [headers |-> Obj([a |-> 1])]}
OverrideChoices == {EmptyDict, [headers |-> Obj([b |-> 2])]}
OutputChoices == {[rows |-> 1]}

\* inputs and overrides with numbers and objects under the same keys, and an
\* object inside an object
NestedInputChoices ==
    {[seed |-> Num(1), headers |-> Obj([a |-> Num(1), n |-> Obj([x |-> Num(1)])])],
     [seed |-> Num(1)],
     [headers |-> Num(5)],
     [headers |-> Obj([b |-> Num(1)]), steps |-> Num(9)]}
NestedOverrideChoices ==
    {EmptyDict,
     [headers |-> Obj([a |-> Num(2)])],
     [headers |-> Obj([n |-> Obj([y |-> Num(2)])])],
     [headers |-> Num(7)],
     [seed |-> Obj([s |-> Num(1)])],
     [steps |-> Num(3)]}

(***************************************************************************)
(* Integration variables: defaults stored per (integration_type, name) as  *)
(* text and merged into the inputs of an entry.                            *)
(***************************************************************************)
\* JSON values besides numbers and objects: strings, lists, booleans
Str(x) == [t |-> "str", s |-> x]
Lst(l) == [t |-> "list", l |-> l]
Bool(b) == [t |-> "bool", b |-> b]

\* the strings of the model whose characters are a JSON document, with the
\* value json.loads gives for them
JsonLiterals == [x \in {"30", "true"} |-> IF x = "30" THEN Num(30) ELSE Bool(TRUE)]

\* a text is the JSON document of a value, or characters that are none
\* json.dumps(value)
json_dumps(v) == [doc |-> v]
\* str(value) of a string: the string itself, which may read as JSON
str_of(v) == IF v.s \in DOMAIN JsonLiterals THEN [doc |-> JsonLiterals[v.s]]
             ELSE [raw |-> v.s]

\* the stored text of a value: JSON for dicts and lists, str() for the rest
EncodeValue(v) == IF v.t \in {"obj", "list"} THEN json_dumps(v) ELSE str_of(v)

\* try: json.loads(text) except JSONDecodeError: text
DecodeValue(text) == IF Has(text, "doc") THEN text.doc ELSE Str(text.raw)

VarTypes == {"api_call", "database_query"}
VarNames == {"timeout", "headers"}
VarValues ==
    {Str("30"), Str("https://api.example.com"),
     Obj([Authorization |-> Str("token")]), Lst(<<Str("a")>>)}

\* DatabaseManager.get_integration_variable: the decoded value, or None
get_integration_variable(table, integrationType, name) ==
    IF Has(table, <<integrationType, name>>)
    THEN {DecodeValue(table[<<integrationType, name>>])} ELSE {}

\* DatabaseManager.get_integration_variables: name -> decoded value
get_integration_variables(table, integrationType) ==
    [name \in {k[2] : k \in {x \in DOMAIN table : x[1] = integrationType}} |->
        DecodeValue(table[<<integrationType, name>>])]

\* IntegrationBase.get_default_variables: nothing for a class without
\* integration_type
get_default_variables(table, integrationType) ==
    IF integrationType = "" THEN EmptyDict
    ELSE get_integration_variables(table, integrationType)

\* a plausible slip: the defaults laid over the inputs
MergeDefaultsWin(defaults, inputs) == DictUnion(inputs, defaults)

\* IntegrationBase.merge_inputs_with_defaults, given the defaults it read
merge_inputs_with_defaults(defaults, inputs) ==
    IF defaults = EmptyDict THEN inputs
    ELSE [k \in (DOMAIN defaults) \cup (DOMAIN inputs) |->
            IF k \in DOMAIN inputs
            THEN IF k \in DOMAIN defaults /\ IsDict(defaults[k]) /\ IsDict(inputs[k])
                 THEN Obj(DictUnion(defaults[k].o, inputs[k].o))
                 ELSE inputs[k]
            ELSE defaults[k]]

\* the inputs integrations merge their defaults into
DefaultedInputChoices ==
    {[url |-> Str("/users")],
     [headers |-> Obj([Authorization |-> Str("mine"), Accept |-> Str("json")]),
      url |-> Str("/users")],
     [headers |-> Str("none"), timeout |-> Str("5")]}

\* DatabaseManager.set_integration_variable: update the row of the key, or
\* insert one
SetVariable(integrationType, name, value) ==
    /\ variables' = Put(variables, <<integrationType, name>>, EncodeValue(value))
    /\ last' = [op |-> "set_variable", type |-> integrationType, name |-> name,
                value |-> value,
                returned |-> DecodeValue(EncodeValue(value))]
    /\ UNCHANGED <<storeVars, dbVars, obj, pc, attempt, runs, storing, integrations>>

\* DatabaseManager.get_integration_variable
GetVariable(integrationType, name) ==
    /\ last' = [op |-> "get_variable", type |-> integrationType, name |-> name,
                result |-> get_integration_variable(variables, integrationType, name),
                after |-> IF last.op \in {"set_variable", "delete_variable"}
                             /\ last.type = integrationType /\ last.name = name
                          THEN IF last.op = "set_variable" THEN {last.value} ELSE {}
                          ELSE {"other"}]
    /\ UNCHANGED <<storeVars, dbVars, taskVars>>

\* DatabaseManager.delete_integration_variable
DeleteVariable(integrationType, name) ==
    /\ variables' = Without(variables, <<integrationType, name>>)
    /\ last' = [op |-> "delete_variable", type |-> integrationType, name |-> name,
                result |-> Has(variables, <<integrationType, name>>)]
    /\ UNCHANGED <<storeVars, dbVars, obj, pc, attempt, runs, storing, integrations>>

\* integration.merge_inputs_with_defaults(inputs) of an integration class
\* whose integration_type is integrationType ("" for a class without one)
MergeDefaults(integrationType, inputs) ==
    /\ last' = [op |-> "merge_defaults", type |-> integrationType, inputs |-> inputs,
                defaults |-> get_default_variables(variables, integrationType),
                result |-> merge_inputs_with_defaults(
                              get_default_variables(variables, integrationType), inputs)]
    /\ UNCHANGED <<storeVars, dbVars, taskVars>>

(***************************************************************************)
(* Persistence: the tables entries, entry_lineage and artifacts.           *)
(***************************************************************************)
EntryIds == 1..MaxEntries

\* a plausible slip: no validation of the references
FkNeverFails(ents, ref) == FALSE

\* Base.validate_foreign_keys on a column that references entries.id:
\* None is not checked, any other value must name an existing row
FkFails(ents, ref) == ref # 0 /\ ref \notin DOMAIN ents

\* the pages of the workspace, and the page objects callers hold: one of a
\* page that is there, one of a page that is there no more
Pages == {"page-1"}
PageRefs == {"page-1", "page-gone"}
\* Base.validate_foreign_keys on page_id
PageFkFails(page) == page \notin Pages

\* the title the callers of Entry.create pass, and the one a later update sets
DefaultTitle == "untitled"
Titles == {DefaultTitle, "renamed"}

\* a plausible slip: a row that does not take the inputs
NewRowWithoutInputs(entryType, inputs, parent) ==
    [entry_type |-> entryType, status |-> "created", parent_id |-> parent,
     inputs |-> EmptyDict, outputs |-> EmptyDict, execution |-> EmptyDict,
     metrics |-> EmptyDict, title |-> DefaultTitle]

\* the row EntryModel.create inserts
NewRow(entryType, inputs, parent) ==
    [entry_type |-> entryType, status |-> "created", parent_id |-> parent,
     inputs |-> inputs, outputs |-> EmptyDict, execution |-> EmptyDict,
     metrics |-> EmptyDict, title |-> DefaultTitle]

\* the object Entry.create builds
NewObj(id, entryType, inputs, parent) ==
    [id |-> id, entry_type |-> entryType, status |-> "created", parent_id |-> parent,
     inputs |-> inputs, outputs |-> EmptyDict, execution |-> EmptyDict,
     metrics |-> EmptyDict, title |-> DefaultTitle]

\* Entry.from_dict of a row (Page.get_entry, _entry_to_core)
ObjOfRow(id, row) ==
    [id |-> id, entry_type |-> row.entry_type, status |-> row.status,
     parent_id |-> row.parent_id, inputs |-> row.inputs, outputs |-> row.outputs,
     execution |-> row.execution, metrics |-> row.metrics, title |-> row.title]

\* a plausible slip: a status assignment that is not followed by _update()
UpdateSkipped(ents, o) == ents

\* Entry._update: writes title, status, outputs, execution and metrics (and
\* metadata, which the model does not carry) of an existing row, all from
\* the object; parent_id and inputs are not among the columns it writes
Update(ents, o) ==
    IF o.id \in DOMAIN ents
    THEN [ents EXCEPT ![o.id] = [@ EXCEPT !.title = o.title,
                                          !.status = o.status,
                                          !.outputs = o.outputs,
                                          !.execution = o.execution,
                                          !.metrics = o.metrics]]
    ELSE ents

\* a plausible slip: the edge written with the new entry's id in both columns
EdgeOnChild(parent, child, type) ==
    [parent_id |-> child, child_id |-> child, relationship_type |-> type]

Edge(parent, child, type) ==
    [parent_id |-> parent, child_id |-> child, relationship_type |-> type]

\* a plausible slip: the variation edge typed like the edge of Entry.create
VariationEdgeTypeDerives == "derives_from"

\* the relationship type Entry.create_variation gives its edge
VariationEdgeType == "variation_of"

\* a plausible slip: a traversal that follows derives_from edges only
ParentIdsDerivedOnly(lin, frontier) ==
    {e.parent_id : e \in {x \in lin : x.child_id \in frontier
                                      /\ x.relationship_type = "derives_from"}}

\* query(EntryLineage).filter(child_id.in_(current_ids)), the parent ids
ParentIdsOf(lin, frontier) ==
    {e.parent_id : e \in {x \in lin : x.child_id \in frontier}}

\* query(EntryLineage).filter(parent_id.in_(current_ids)), the child ids
ChildIdsOf(lin, frontier) ==
    {e.child_id : e \in {x \in lin : x.parent_id \in frontier}}

\* DatabaseManager.get_ancestors: per level, the existing entries that are
\* parents of the frontier; the frontier moves to all parent ids
RECURSIVE get_ancestors(_, _, _, _)
get_ancestors(lin, ents, frontier, depth) ==
    LET parentIds == ParentIdsOf(lin, frontier)
    IN IF depth = 0 \/ frontier = {} \/ parentIds = {} THEN <<>>
       ELSE <<parentIds \cap DOMAIN ents>> \o get_ancestors(lin, ents, parentIds, depth - 1)

\* DatabaseManager.get_descendants: the same towards children
RECURSIVE get_descendants(_, _, _, _)
get_descendants(lin, ents, frontier, depth) ==
    LET childIds == ChildIdsOf(lin, frontier)
    IN IF depth = 0 \/ frontier = {} \/ childIds = {} THEN <<>>
       ELSE <<childIds \cap DOMAIN ents>> \o get_descendants(lin, ents, childIds, depth - 1)

\* the ids in the list a traversal returns
IdsOf(levels) == UNION {levels[i] : i \in 1..Len(levels)}

\* Entry.get_lineage: the two traversals with one find_by per frontier id
\* and one get_by_id per id found
RECURSIVE lineage_walk(_, _, _, _, _)
lineage_walk(lin, ents, frontier, depth, up) ==
    LET found == UNION {IF up THEN ParentIdsOf(lin, {cid}) ELSE ChildIdsOf(lin, {cid})
                        : cid \in frontier}
    IN IF depth = 0 \/ frontier = {} \/ found = {} THEN <<>>
       ELSE <<{x \in found : x \in DOMAIN ents}>>
            \o lineage_walk(lin, ents, found, depth - 1, up)

get_lineage(lin, ents, id, depth) ==
    [ancestors |-> lineage_walk(lin, ents, {id}, depth, TRUE),
     descendants |-> lineage_walk(lin, ents, {id}, depth, FALSE)]

InLevels(levels, id) == \E i \in 1..Len(levels) : id \in levels[i]

\* A result list with its repetitions: how many times each id is in it.
Ids == 1..MaxNodes
NoIds == [n \in Ids |-> 0]
ListSum(a, b) == [n \in Ids |-> a[n] + b[n]]
RECURSIVE SumOver(_, _)
SumOver(f, S) ==
    IF S = {} THEN 0
    ELSE LET x == CHOOSE y \in S : TRUE IN f[x] + SumOver(f, S \ {x})

\* the edge rows between two ids, towards parents (up) or children
EdgeCount(lin, from, to, up) ==
    Cardinality({e \in lin : IF up THEN e.child_id = from /\ e.parent_id = to
                                   ELSE e.parent_id = from /\ e.child_id = to})

\* DatabaseManager.get_ancestors / get_descendants: IN (current_ids) yields
\* each edge row of the frontier once, however often an id is in
\* current_ids, and IN (parent_ids) yields each existing entry once; the
\* next frontier is the list of the ids found
RECURSIVE ManagerList(_, _, _, _, _)
ManagerList(lin, ents, frontier, depth, up) ==
    LET current == {c \in Ids : frontier[c] > 0}
        found == [p \in Ids |-> SumOver([c \in Ids |-> EdgeCount(lin, c, p, up)], current)]
        rows == [p \in Ids |-> IF found[p] > 0 /\ p \in DOMAIN ents THEN 1 ELSE 0]
    IN IF depth = 0 \/ current = {} \/ found = NoIds THEN NoIds
       ELSE ListSum(rows, ManagerList(lin, ents, found, depth - 1, up))

\* Entry.get_lineage: one find_by per element of current_ids and one
\* get_by_id per id found, each result appended
RECURSIVE EntryList(_, _, _, _, _)
EntryList(lin, ents, frontier, depth, up) ==
    LET found == [p \in Ids |->
                    SumOver([c \in Ids |-> frontier[c] * EdgeCount(lin, c, p, up)], Ids)]
        rows == [p \in Ids |-> IF p \in DOMAIN ents THEN found[p] ELSE 0]
    IN IF depth = 0 \/ frontier = NoIds \/ found = NoIds THEN NoIds
       ELSE ListSum(rows, EntryList(lin, ents, found, depth - 1, up))

\* current_ids = [entry_id]
Only(id) == [n \in Ids |-> IF n = id THEN 1 ELSE 0]

\* f"art-{sha256(artifact_hash)[:12]}": a function of the content hash alone
ArtifactId(ref) == ref.hex

ArtifactRow(entryId, mime, data) ==
    [id |-> ArtifactId(Ref(sha256(data))), entry_id |-> entryId,
     type |-> mime, hash |-> Ref(sha256(data))]

\* DatabaseManager.insert_artifact: the commit raises IntegrityError when the
\* primary key id or the unique column hash is already in the table
InsertArtifactRaises(table, row) ==
    \E a \in table : a.id = row.id \/ a.hash = row.hash

\* session.delete(entry): the ORM deletes the entry's artifacts
\* (cascade="all, delete-orphan") and sets parent_id of its children to NULL
\* (relationship parent/children without a delete cascade)
EntriesAfterDelete(ents, id) ==
    [x \in (DOMAIN ents) \ {id} |->
        IF ents[x].parent_id = id THEN [ents[x] EXCEPT !.parent_id = 0] ELSE ents[x]]
ArtifactsAfterDelete(table, id) == {a \in table : a.entry_id # id}

\* a plausible slip: a delete that also removes the blobs of the entry's
\* artifacts
BlobsCollectedOnDelete(bl, table, id) ==
    [h \in (DOMAIN bl) \ {a.hash.hex : a \in {x \in table : x.entry_id = id}} |-> bl[h]]

\* Entry.delete makes no call to the storage manager
BlobsAfterDelete(bl, table, id) == bl

\* entry_lineage declares ON DELETE CASCADE on both columns, but no ORM
\* relationship reaches it and get_engine opens SQLite without
\* PRAGMA foreign_keys=ON, so the DELETE of an entry row removes no edge
LineageAfterDelete(lin, id) == lin

(***************************************************************************)
(* What an integration hands back: a result dict, or an exception.         *)
(***************************************************************************)
\* the payloads integrations return as artifacts
ArtifactData == {b \in Data : Len(b) <= 1 /\ \A i \in 1..Len(b) : b[i] = 0}
ArtifactDescs == [type : {"application/json"}, data : ArtifactData]
ArtifactLists == UNION {[1..n -> ArtifactDescs] : n \in 0..MaxArtifacts}

\* result dicts with and without the keys "outputs" and "artifacts"
Results ==
    {EmptyDict}
    \cup {[outputs |-> o] : o \in OutputChoices}
    \cup {[artifacts |-> a] : a \in ArtifactLists}
    \cup {[outputs |-> o, artifacts |-> a] : o \in OutputChoices, a \in ArtifactLists}

\* exceptions (subclasses of Exception) by their args; str(e) of an exception
\* without args is the empty string, as for asyncio.TimeoutError()
Exceptions == {[args |-> <<>>], [args |-> <<"workflow failed">>]}
StrOfException(e) == IF e.args = <<>> THEN "" ELSE e.args[1]
IntegrityErrorMessage == "UNIQUE constraint failed"

\* result.get("outputs", {})
ResultOutputs(result) == IF Has(result, "outputs") THEN result.outputs ELSE EmptyDict
ResultArtifacts(result) == IF Has(result, "artifacts") THEN result.artifacts ELSE <<>>

\* the except branch of Entry.execute
FailedObj(o, message) ==
    [o EXCEPT !.execution = Put(Put(Put(@, "completed_at", "ts"), "status", "error"),
                                "error", message),
              !.status = "failed"]

\* a plausible slip: the success path without its status assignment
CompletedWithoutStatus(o, result) ==
    [o EXCEPT !.outputs = ResultOutputs(result),
              !.execution = Put(Put(@, "completed_at", "ts"), "status", "success")]

\* the assignments of Entry.execute after the integration returned
CompletedObj(o, result) ==
    [o EXCEPT !.outputs = ResultOutputs(result),
              !.execution = Put(Put(@, "completed_at", "ts"), "status", "success"),
              !.status = "completed"]

\* the add_artifact loop of Entry.execute over result["artifacts"]: the
\* number of add_artifact calls made (the loop ends at the first that raises)
RECURSIVE IngestCalls(_, _, _)
IngestCalls(arts, table, entryId) ==
    IF arts = <<>> THEN 0
    ELSE LET row == ArtifactRow(entryId, arts[1].type, arts[1].data)
         IN IF InsertArtifactRaises(table, row) THEN 1
            ELSE 1 + IngestCalls(Tail(arts), table \cup {row}, entryId)

RECURSIVE IngestRaises(_, _, _)
IngestRaises(arts, table, entryId) ==
    IF arts = <<>> THEN FALSE
    ELSE LET row == ArtifactRow(entryId, arts[1].type, arts[1].data)
         IN IF InsertArtifactRaises(table, row) THEN TRUE
            ELSE IngestRaises(Tail(arts), table \cup {row}, entryId)

\* the rows the loop inserts
RECURSIVE IngestTable(_, _, _)
IngestTable(arts, table, entryId) ==
    IF arts = <<>> THEN table
    ELSE LET row == ArtifactRow(entryId, arts[1].type, arts[1].data)
         IN IF InsertArtifactRaises(table, row) THEN table
            ELSE IngestTable(Tail(arts), table \cup {row}, entryId)

\* the store calls of the first n add_artifact calls
RECURSIVE IngestBlobs(_, _, _)
IngestBlobs(arts, n, bl) ==
    IF n = 0 THEN bl ELSE IngestBlobs(Tail(arts), n - 1, BlobsAfterStore(bl, arts[1].data))
RECURSIVE IngestNWrites(_, _, _, _)
IngestNWrites(arts, n, nw, bl) ==
    IF n = 0 THEN nw
    ELSE IngestNWrites(Tail(arts), n - 1, NWritesAfterStore(nw, bl, arts[1].data),
                       BlobsAfterStore(bl, arts[1].data))
RECURSIVE IngestStored(_, _, _)
IngestStored(arts, n, st) ==
    IF n = 0 THEN st ELSE IngestStored(Tail(arts), n - 1, StoredAfterStore(st, arts[1].data))

(***************************************************************************)
(* Entry operations.  A task is a caller holding one Entry object.         *)
(***************************************************************************)
Holds(t) == obj[t].id # 0 /\ pc[t] = "idle"

\* Page.create_entry / Entry.create: the references are validated before
\* anything is added; the row and the edge are committed together
Create(t, page, entryType, inputs, parent) ==
    /\ pc[t] = "idle"
    /\ nextId < MaxEntries
    /\ IF PageFkFails(page) \/ FkFails(entries, parent)
       THEN /\ last' = [op |-> "create", task |-> t, raised |-> TRUE,
                        page |-> page, parent |-> parent]
            /\ UNCHANGED <<storeVars, dbVars, taskVars>>
       ELSE /\ nextId' = nextId + 1
            /\ entries' = Put(entries, nextId + 1, NewRow(entryType, inputs, parent))
            /\ lineage' = IF parent # 0
                          THEN lineage \cup {Edge(parent, nextId + 1, "derives_from")}
                          ELSE lineage
            /\ obj' = [obj EXCEPT ![t] = NewObj(nextId + 1, entryType, inputs, parent)]
            /\ last' = [op |-> "create", task |-> t, raised |-> FALSE,
                        page |-> page, parent |-> parent, id |-> nextId + 1,
                        inputs |-> inputs]
            /\ UNCHANGED <<storeVars, artifacts, pc, attempt, runs, storing, integrations, variables>>

\* Page.get_entry: a fresh object from the row, or None
Load(t, id) ==
    /\ pc[t] = "idle"
    /\ obj' = [obj EXCEPT ![t] = IF id \in DOMAIN entries
                                 THEN ObjOfRow(id, entries[id]) ELSE NoObj]
    /\ last' = [op |-> "load"]
    /\ UNCHANGED <<storeVars, dbVars, pc, attempt, runs, storing, integrations, variables>>

\* Entry.execute up to its first suspension: status running is persisted, the
\* integration is looked up and, if there is one, awaited; an unregistered
\* type fails the whole call without suspending
ExecuteBegin(t) ==
    /\ Holds(t)
    /\ runs < MaxRuns
    /\ runs' = runs + 1
    /\ LET running == [obj[t] EXCEPT !.status = "running",
                                     !.execution = Put(@, "started_at", "ts")]
           failed == FailedObj(running, RegistryGetMessage(running.entry_type))
       IN IF RegistryGetRaises(running.entry_type)
          THEN /\ obj' = [obj EXCEPT ![t] = failed]
               /\ entries' = Update(Update(entries, running), failed)
               /\ attempt' = [attempt EXCEPT ![t] = <<"running", "failed">>]
               /\ last' = [op |-> "execute", task |-> t, how |-> "unknown",
                           raised |-> TRUE, returned |-> {}]
               /\ UNCHANGED pc
          ELSE /\ obj' = [obj EXCEPT ![t] = running]
               /\ entries' = Update(entries, running)
               /\ attempt' = [attempt EXCEPT ![t] = <<"running">>]
               /\ pc' = [pc EXCEPT ![t] = "awaiting"]
               /\ last' = [op |-> "execute_begin", task |-> t]
    /\ UNCHANGED <<storeVars, lineage, artifacts, nextId, storing, integrations, variables>>

\* Entry.execute from the return of integration.execute to its end
ExecuteReturn(t, result) ==
    /\ pc[t] = "awaiting"
    /\ LET completed == CompletedObj(obj[t], result)
           arts == ResultArtifacts(result)
           n == IngestCalls(arts, artifacts, completed.id)
           raises == IngestRaises(arts, artifacts, completed.id)
           final == IF raises THEN FailedObj(completed, IntegrityErrorMessage)
                    ELSE completed
       IN /\ blobs' = IngestBlobs(arts, n, blobs)
          /\ nwrites' = IngestNWrites(arts, n, nwrites, blobs)
          /\ stored' = IngestStored(arts, n, stored)
          /\ artifacts' = IngestTable(arts, artifacts, completed.id)
          /\ obj' = [obj EXCEPT ![t] = final]
          /\ entries' = Update(entries, final)
          /\ attempt' = [attempt EXCEPT ![t] =
                            @ \o (IF raises THEN <<"completed", "failed">>
                                  ELSE <<"completed">>)]
          /\ last' = [op |-> "execute", task |-> t, how |-> "returned",
                      raised |-> raises,
                      returned |-> IF Has(result, "outputs") THEN {result.outputs} ELSE {}]
    /\ pc' = [pc EXCEPT ![t] = "idle"]
    /\ UNCHANGED <<thumbs, lineage, nextId, runs, storing, integrations, variables>>

\* Entry.execute when integration.execute raises
ExecuteRaise(t, e) ==
    /\ pc[t] = "awaiting"
    /\ LET failed == FailedObj(obj[t], StrOfException(e))
       IN /\ obj' = [obj EXCEPT ![t] = failed]
          /\ entries' = Update(entries, failed)
    /\ attempt' = [attempt EXCEPT ![t] = @ \o <<"failed">>]
    /\ pc' = [pc EXCEPT ![t] = "idle"]
    /\ last' = [op |-> "execute", task |-> t, how |-> "raised", raised |-> TRUE,
                returned |-> {}]
    /\ UNCHANGED <<storeVars, lineage, artifacts, nextId, runs, storing, integrations, variables>>

\* Entry.add_artifact: store the bytes, then insert the artifact row
AddArtifact(t, mime, data, decodes) ==
    /\ Holds(t)
    /\ LET row == ArtifactRow(obj[t].id, mime, data)
           raises == InsertArtifactRaises(artifacts, row)
       IN /\ artifacts' = IF raises THEN artifacts ELSE artifacts \cup {row}
          /\ last' = [op |-> "add_artifact", task |-> t, raised |-> raises,
                      data |-> data, hash |-> row.hash,
                      again |-> \E p \in stored : p.data = data]
    /\ blobs' = BlobsAfterStore(blobs, data)
    /\ thumbs' = ThumbsAfterStore(thumbs, data, mime, decodes)
    /\ nwrites' = NWritesAfterStore(nwrites, blobs, data)
    /\ stored' = StoredAfterStore(stored, data)
    /\ UNCHANGED <<entries, lineage, nextId, taskVars>>

\* Entry.update(title=...): the attribute is assigned and _update() called
UpdateEntry(t, title) ==
    /\ Holds(t)
    /\ LET updated == [obj[t] EXCEPT !.title = title]
       IN /\ obj' = [obj EXCEPT ![t] = updated]
          /\ entries' = Update(entries, updated)
    /\ last' = [op |-> "update", task |-> t, title |-> title]
    /\ UNCHANGED <<storeVars, lineage, artifacts, nextId, pc, attempt, runs, storing, integrations, variables>>

\* Entry.create_variation
CreateVariation(t, overrides) ==
    /\ Holds(t)
    /\ nextId < MaxEntries
    /\ LET self == obj[t]
           new == nextId + 1
           inputs == MergeInputs(self.inputs, overrides)
           \* Entry.create(..., parent_id=None): a row without parent, no edge
           created == Put(entries, new, NewRow(self.entry_type, inputs, 0))
           \* variation.parent_id = self.id
           variation == [NewObj(new, self.entry_type, inputs, 0)
                            EXCEPT !.parent_id = self.id]
           updated == Update(created, variation)
           edge == Edge(self.id, new, VariationEdgeType)
           raises == FkFails(updated, self.id)
       IN /\ nextId' = new
          /\ entries' = updated
          /\ lineage' = IF raises THEN lineage ELSE lineage \cup {edge}
          /\ obj' = IF raises THEN obj ELSE [obj EXCEPT ![t] = variation]
          /\ last' = [op |-> "create_variation", task |-> t, raised |-> raises,
                      of |-> self.id, id |-> new,
                      existed |-> self.id \in DOMAIN entries,
                      inputs |-> self.inputs, overrides |-> overrides]
    /\ UNCHANGED <<storeVars, artifacts, pc, attempt, runs, storing, integrations, variables>>

\* Entry.delete
Delete(t) ==
    /\ Holds(t)
    /\ LET id == obj[t].id
           found == id \in DOMAIN entries
       IN /\ entries' = IF found THEN EntriesAfterDelete(entries, id) ELSE entries
          /\ artifacts' = IF found THEN ArtifactsAfterDelete(artifacts, id) ELSE artifacts
          /\ lineage' = IF found THEN LineageAfterDelete(lineage, id) ELSE lineage
          /\ blobs' = IF found THEN BlobsAfterDelete(blobs, artifacts, id) ELSE blobs
          /\ last' = [op |-> "delete", task |-> t, id |-> id, result |-> found,
                      linked |-> ({e.child_id : e \in {x \in lineage : x.parent_id = id}}
                                  \cup {e.parent_id : e \in {x \in lineage : x.child_id = id}})
                                 \cap (DOMAIN entries \ {id})]
    /\ UNCHANGED <<thumbs, nwrites, stored, nextId, taskVars>>

(***************************************************************************)
(* Execution: entries are created, loaded, executed, given artifacts and   *)
(* deleted by concurrent callers.                                          *)
(***************************************************************************)
DefaultInputs == [seed |-> Num(1)]

Next ==
    \/ \E t \in Tasks, entryType \in EntryTypes :
           Create(t, "page-1", entryType, DefaultInputs, 0)
    \/ \E t \in Tasks, id \in EntryIds : Load(t, id)
    \/ \E t \in Tasks : ExecuteBegin(t)
    \/ \E t \in Tasks, result \in Results : ExecuteReturn(t, result)
    \/ \E t \in Tasks, e \in Exceptions : ExecuteRaise(t, e)
    \/ \E t \in Tasks, data \in ArtifactData :
           AddArtifact(t, "application/json", data, FALSE)
    \/ \E t \in Tasks : Delete(t)

Spec == Init /\ [][Next]_vars

(***************************************************************************)
(* Dispatch: execution of entries of registered and unregistered types by  *)
(* integrations that return no artifacts.                                  *)
(***************************************************************************)
PlainResults == {r \in Results : ~Has(r, "artifacts")}

DispatchNext ==
    \/ \E t \in Tasks, entryType \in EntryTypes :
           Create(t, "page-1", entryType, DefaultInputs, 0)
    \/ \E t \in Tasks, id \in EntryIds : Load(t, id)
    \/ \E t \in Tasks : ExecuteBegin(t)
    \/ \E t \in Tasks, result \in PlainResults : ExecuteReturn(t, result)
    \/ \E t \in Tasks, e \in Exceptions : ExecuteRaise(t, e)
    \/ \E t \in Tasks : Delete(t)

DispatchSpec == Init /\ [][DispatchNext]_vars

(***************************************************************************)
(* Lineage: entries are created with and without a parent, varied, loaded  *)
(* and deleted.                                                            *)
(***************************************************************************)
LineageNext ==
    \/ \E t \in Tasks, inputs \in InputChoices, parent \in 0..MaxEntries :
           Create(t, "page-1", "custom", inputs, parent)
    \/ \E t \in Tasks, id \in EntryIds : Load(t, id)
    \/ \E t \in Tasks, overrides \in OverrideChoices : CreateVariation(t, overrides)
    \/ \E t \in Tasks : Delete(t)

LineageSpec == Init /\ [][LineageNext]_vars

(***************************************************************************)
(* The registry: integrations are registered and looked up.                *)
(***************************************************************************)
RegistryNext ==
    \/ \E entryType \in RegistryTypes, impl \in Implementations : Register(entryType, impl)
    \/ \E entryType \in RegistryTypes : Resolve(entryType)

RegistrySpec == Init /\ [][RegistryNext]_vars

(***************************************************************************)
(* Integration variables are set, read, deleted and merged into inputs.    *)
(***************************************************************************)
VariablesNext ==
    \/ \E ty \in VarTypes, name \in VarNames, value \in VarValues : SetVariable(ty, name, value)
    \/ \E ty \in VarTypes, name \in VarNames : GetVariable(ty, name)
    \/ \E ty \in VarTypes, name \in VarNames : DeleteVariable(ty, name)
    \/ \E ty \in VarTypes \cup {""}, inputs \in DefaultedInputChoices : MergeDefaults(ty, inputs)

VariablesSpec == Init /\ [][VariablesNext]_vars

(***************************************************************************)
(* Artifacts: entries are created, given artifacts, loaded and deleted.    *)
(***************************************************************************)
ArtifactNext ==
    \/ \E t \in Tasks : Create(t, "page-1", "custom", DefaultInputs, 0)
    \/ \E t \in Tasks, id \in EntryIds : Load(t, id)
    \/ \E t \in Tasks, mime \in MimeTypes, data \in ArtifactData :
           AddArtifact(t, mime, data, TRUE)
    \/ \E t \in Tasks : Delete(t)

ArtifactSpec == Init /\ [][ArtifactNext]_vars

(***************************************************************************)
(* Creation: entries are created on pages that are and are not there, with *)
(* and without a parent that is or is not there, loaded and deleted.       *)
(***************************************************************************)
CreationNext ==
    \/ \E t \in Tasks, page \in PageRefs, entryType \in EntryTypes,
          inputs \in InputChoices, parent \in 0..MaxEntries :
           Create(t, page, entryType, inputs, parent)
    \/ \E t \in Tasks, id \in EntryIds : Load(t, id)
    \/ \E t \in Tasks : Delete(t)

CreationSpec == Init /\ [][CreationNext]_vars

(***************************************************************************)
(* Variations of entries whose inputs hold numbers and objects.            *)
(***************************************************************************)
MergeNext ==
    \/ \E t \in Tasks, inputs \in NestedInputChoices : Create(t, "page-1", "custom", inputs, 0)
    \/ \E t \in Tasks, id \in EntryIds : Load(t, id)
    \/ \E t \in Tasks, overrides \in NestedOverrideChoices : CreateVariation(t, overrides)

MergeSpec == Init /\ [][MergeNext]_vars

(***************************************************************************)
(* Traversal of lineage graphs.  The tables are those that creations with  *)
(* and without a parent, variations and deletions leave behind: every      *)
(* entry has at most one parent edge, to an entry created before it, and   *)
(* the edges of a deleted entry are still there.                           *)
(***************************************************************************)
Nodes == 1..MaxNodes
Depths == 1..MaxDepth

\* parent of each entry at its creation (0: none)
ParentChoices == {p \in [Nodes -> 0..MaxNodes] : \A n \in Nodes : p[n] < n}

\* how each entry came to be: Entry.create or Entry.create_variation
OriginChoices ==
    {[n \in Nodes |-> "derives_from"], [n \in Nodes |-> VariationEdgeType],
     [n \in Nodes |-> IF n % 2 = 0 THEN "derives_from" ELSE VariationEdgeType]}

\* entries deleted since: none, or one
DeletedChoices == {{}} \cup {{n} : n \in Nodes}

LineageTable(p, origin) ==
    {Edge(p[n], n, origin[n]) : n \in {m \in Nodes : p[m] # 0}}

EntriesTable(p, origin, deleted) ==
    [n \in Nodes \ deleted |->
        NewRow("custom", DefaultInputs,
               IF origin[n] = "derives_from" /\ p[n] \notin deleted THEN p[n] ELSE 0)]

TraversalInit ==
    /\ blobs = EmptyDict
    /\ thumbs = {}
    /\ nwrites = EmptyDict
    /\ stored = {}
    /\ \E p \in ParentChoices, origin \in OriginChoices, deleted \in DeletedChoices :
          /\ entries = EntriesTable(p, origin, deleted)
          /\ lineage = LineageTable(p, origin)
    /\ artifacts = {}
    /\ nextId = MaxNodes
    /\ obj = [t \in Tasks |-> NoObj]
    /\ pc = [t \in Tasks |-> "idle"]
    /\ attempt = [t \in Tasks |-> <<>>]
    /\ runs = 0
    /\ storing = [c \in Callers |-> NotStoring]
    /\ integrations = BuiltIns
    /\ variables = EmptyDict
    /\ last = [op |-> "init"]

\* DatabaseManager.get_ancestors(entry_id, depth)
GetAncestors(id, depth) ==
    /\ last' = [op |-> "get_ancestors", id |-> id, depth |-> depth,
                result |-> IdsOf(get_ancestors(lineage, entries, {id}, depth))]
    /\ UNCHANGED <<storeVars, dbVars, taskVars>>

\* DatabaseManager.get_descendants(entry_id, depth)
GetDescendants(id, depth) ==
    /\ last' = [op |-> "get_descendants", id |-> id, depth |-> depth,
                result |-> IdsOf(get_descendants(lineage, entries, {id}, depth))]
    /\ UNCHANGED <<storeVars, dbVars, taskVars>>

\* Entry.get_lineage(depth) on the object of an entry
GetLineage(id, depth) ==
    /\ LET r == get_lineage(lineage, entries, id, depth)
       IN last' = [op |-> "get_lineage", id |-> id, depth |-> depth,
                   ancestors |-> IdsOf(r.ancestors),
                   descendants |-> IdsOf(r.descendants)]
    /\ UNCHANGED <<storeVars, dbVars, taskVars>>

TraversalNext ==
    \/ \E id \in Nodes, depth \in Depths : GetAncestors(id, depth)
    \/ \E id \in Nodes, depth \in Depths : GetDescendants(id, depth)
    \/ \E id \in Nodes, depth \in Depths : GetLineage(id, depth)

TraversalSpec == TraversalInit /\ [][TraversalNext]_vars

(***************************************************************************)
(* Lineage graphs built through the database manager.  Edges are added     *)
(* between any two ids, of entries that exist or do not, and the lists of  *)
(* the traversals are taken with their repetitions.                        *)
(***************************************************************************)
\* DatabaseManager.add_lineage_edge: the row is added without validation of
\* its references; the commit raises IntegrityError on a pair that is there
AddLineageEdge(parent, child) ==
    /\ Cardinality(lineage) < MaxEdges
    /\ LET raises == \E e \in lineage : e.parent_id = parent /\ e.child_id = child
       IN /\ lineage' = IF raises THEN lineage
                        ELSE lineage \cup {Edge(parent, child, "derives_from")}
          /\ last' = [op |-> "add_lineage_edge", raised |-> raises]
    /\ UNCHANGED <<storeVars, entries, artifacts, nextId, taskVars>>

\* DatabaseManager.get_ancestors(entry_id, depth)
ListAncestors(id, depth) ==
    /\ last' = [op |-> "list_ancestors", id |-> id, depth |-> depth,
                result |-> ManagerList(lineage, entries, Only(id), depth, TRUE)]
    /\ UNCHANGED <<storeVars, dbVars, taskVars>>

\* DatabaseManager.get_descendants(entry_id, depth)
ListDescendants(id, depth) ==
    /\ last' = [op |-> "list_descendants", id |-> id, depth |-> depth,
                result |-> ManagerList(lineage, entries, Only(id), depth, FALSE)]
    /\ UNCHANGED <<storeVars, dbVars, taskVars>>

\* Entry.get_lineage(depth) on the object a caller holds
ListLineage(t, depth) ==
    /\ Holds(t)
    /\ last' = [op |-> "list_lineage", id |-> obj[t].id, depth |-> depth,
                ancestors |-> EntryList(lineage, entries, Only(obj[t].id), depth, TRUE),
                descendants |-> EntryList(lineage, entries, Only(obj[t].id), depth, FALSE)]
    /\ UNCHANGED <<storeVars, dbVars, taskVars>>

\* edges are added between any two different ids
GraphNext ==
    \/ \E t \in Tasks : Create(t, "page-1", "custom", DefaultInputs, 0)
    \/ \E t \in Tasks, id \in EntryIds : Load(t, id)
    \/ \E parent \in Ids, child \in Ids : parent # child /\ AddLineageEdge(parent, child)
    \/ \E id \in EntryIds, depth \in Depths : ListAncestors(id, depth)
    \/ \E id \in EntryIds, depth \in Depths : ListDescendants(id, depth)
    \/ \E t \in Tasks, depth \in Depths : ListLineage(t, depth)

GraphSpec == Init /\ [][GraphNext]_vars

(***************************************************************************)
(* Executions of one entry by several callers, each with the object it     *)
(* loaded.  The entry is there from the start and is not deleted.          *)
(***************************************************************************)
\* the requests that execute the entry
Executors == 1..(MaxTasks + 1)

\* the tables after one Entry.create; no request has loaded the entry yet
ExecutionInit ==
    /\ blobs = EmptyDict
    /\ thumbs = {}
    /\ nwrites = EmptyDict
    /\ stored = {}
    /\ entries = Put(EmptyDict, 1, NewRow("custom", DefaultInputs, 0))
    /\ lineage = {}
    /\ artifacts = {}
    /\ nextId = 1
    /\ obj = [t \in Executors |-> NoObj]
    /\ pc = [t \in Executors |-> "idle"]
    /\ attempt = [t \in Executors |-> <<>>]
    /\ runs = 0
    /\ storing = [c \in Callers |-> NotStoring]
    /\ integrations = BuiltIns
    /\ variables = EmptyDict
    /\ last = [op |-> "init"]

\* the integration of executor t returns or raises
IntegrationEnds(t) ==
    \/ \E result \in PlainResults : ExecuteReturn(t, result)
    \/ \E e \in Exceptions : ExecuteRaise(t, e)

ExecutionNext ==
    \/ \E t \in Executors : Load(t, 1)
    \/ \E t \in Executors : ExecuteBegin(t)
    \/ \E t \in Executors, result \in PlainResults : ExecuteReturn(t, result)
    \/ \E t \in Executors, e \in Exceptions : ExecuteRaise(t, e)

ExecutionSpec == ExecutionInit /\ [][ExecutionNext]_vars

\* the event loop resumes a coroutine whose awaited integration is done, and
\* the rest of execute() has no await
ExecutionFairSpec ==
    ExecutionSpec /\ \A t \in Executors : WF_vars(IntegrationEnds(t))

(***************************************************************************)
(* Executions of one entry while other callers update its title.           *)
(***************************************************************************)
FrameNext ==
    \/ \E t \in Executors : Load(t, 1)
    \/ \E t \in Executors : ExecuteBegin(t)
    \/ \E t \in Executors, result \in PlainResults : ExecuteReturn(t, result)
    \/ \E t \in Executors, e \in Exceptions : ExecuteRaise(t, e)
    \/ \E t \in Executors, title \in Titles : UpdateEntry(t, title)

FrameSpec == ExecutionInit /\ [][FrameNext]_vars

(***************************************************************************)
(* The content store on its own.                                           *)
(***************************************************************************)
StorageNext ==
    \/ \E data \in Data, mime \in MimeTypes, decodes \in BOOLEAN :
           StorageStore(data, mime, decodes)
    \/ \E ref \in Refs : StorageRetrieve(ref)
    \/ \E ref \in Refs : StorageDelete(ref)

StorageSpec == Init /\ [][StorageNext]_vars

(***************************************************************************)
(* The content store under callers that store at the same time.            *)
(***************************************************************************)
ConcurrentStoreNext ==
    \/ \E c \in Callers, data \in SharedData, mime \in MimeTypes : StoreCheck(c, data, mime)
    \/ \E c \in Callers : StoreOpen(c)
    \/ \E c \in Callers : StoreWrite(c)
    \/ \E c \in Callers, decodes \in BOOLEAN : StoreReturn(c, decodes)

ConcurrentStoreSpec == Init /\ [][ConcurrentStoreNext]_vars

(***************************************************************************)
(* The content store read while callers store.                             *)
(***************************************************************************)
ObservedStoreNext ==
    \/ \E c \in Callers, data \in SharedData : StoreCheck(c, data, "text/plain")
    \/ \E c \in Callers : StoreOpen(c)
    \/ \E c \in Callers : StoreWrite(c)
    \/ \E c \in Callers : StoreReturn(c, FALSE)
    \/ \E data \in SharedData : StorageRetrieve(Ref(sha256(data)))
    \/ \E data \in SharedData : StorageExists(Ref(sha256(data)))

ObservedStoreSpec == Init /\ [][ObservedStoreNext]_vars

(***************************************************************************)
(* Properties                                                              *)
(***************************************************************************)
RowExists(id) == id \in DOMAIN entries
EdgesBetween(a, b) ==
    {e \in lineage : \/ (e.parent_id = a /\ e.child_id = b)
                     \/ (e.parent_id = b /\ e.child_id = a)}

\* C1: every content stored and not deleted since is retrieved exactly, the
\* empty byte sequence included, by the reference store returned and by the
\* same reference without its sha256: prefix; with and without the prefix
\* retrieve answers alike for every reference.
RoundTrip ==
    /\ \A p \in stored :
          /\ retrieve(blobs, p.ref) = {p.data}
          /\ retrieve(blobs, Bare(p.ref.hex)) = {p.data}
    /\ \A h \in Digests : retrieve(blobs, Ref(h)) = retrieve(blobs, Bare(h))

RoundTripWitness ==
    /\ Cardinality(stored) >= 2
    /\ \E p \in stored : p.data = <<>>
    /\ last.op = "retrieve" /\ last.ref.prefix /\ last.result # {}

\* C2: a store of bytes that an earlier store put there returns the reference
\* the earlier call returned and writes nothing: the blob was written once.
IdempotentStore ==
    /\ (last.op = "store" /\ last.prior # {}) =>
          /\ last.prior = {last.ref}
          /\ ~last.wrote
          /\ nwrites[last.ref.hex] = 1
    /\ \A h \in DOMAIN blobs : nwrites[h] = 1

IdempotentStoreWitness == last.op = "store" /\ last.prior # {}

\* C3: after execute() on an entry whose integration returned a result, the
\* entry is completed with the outputs returned and execution.status
\* success, and the persisted row says the same.
SuccessfulExecution ==
    (last.op = "execute" /\ last.how = "returned") =>
        LET o == obj[last.task]
        IN /\ o.status = "completed"
           /\ o.execution["status"] = "success"
           /\ last.returned # {} => o.outputs \in last.returned
           /\ RowExists(o.id) => /\ entries[o.id].status = o.status
                                 /\ entries[o.id].outputs = o.outputs

\* C4: after execute() whose integration raised, the entry is failed,
\* execution.status is error, execution.error is a non-empty string, the row
\* says the same and the exception went to the caller.
FailedExecution ==
    (last.op = "execute" /\ last.how = "raised") =>
        LET o == obj[last.task]
        IN /\ last.raised
           /\ o.status = "failed"
           /\ o.execution["status"] = "error"
           /\ Has(o.execution, "error") /\ o.execution["error"] # ""
           /\ RowExists(o.id) => /\ entries[o.id].status = "failed"
                                 /\ entries[o.id].execution = o.execution

\* C5: after execute() on an entry whose type has no registered integration
\* the caller got an error, the entry is failed with the error text in
\* execution.error, and its row, not left running, says the same.
UnknownIntegrationFails ==
    (last.op = "execute" /\ obj[last.task].entry_type \notin Registered) =>
        LET o == obj[last.task]
        IN /\ last.raised
           /\ o.status = "failed"
           /\ o.execution["status"] = "error"
           /\ o.execution["error"] = RegistryGetMessage(o.entry_type)
           /\ o.execution["error"] # ""
           /\ RowExists(o.id) => /\ entries[o.id].status = "failed"
                                 /\ entries[o.id].execution = o.execution

UnknownIntegrationWitness ==
    /\ last.op = "execute"
    /\ obj[last.task].entry_type \notin Registered
    /\ RowExists(obj[last.task].id)

\* C6: create_variation on an existing entry A returns a new entry B with
\* parent_id A; the one lineage edge between the two is (A, B, variation_of),
\* and ancestors(B, 1) holds A.
VariationLineage ==
    (last.op = "create_variation" /\ last.existed) =>
        LET b == obj[last.task]
        IN /\ ~last.raised
           /\ b.id = last.id /\ b.id # last.of
           /\ b.parent_id = last.of
           /\ EdgesBetween(last.of, b.id) = {Edge(last.of, b.id, "variation_of")}
           /\ InLevels(get_ancestors(lineage, entries, {b.id}, 1), last.of)

VariationLineageWitness == last.op = "create_variation" /\ last.existed

\* C7: after create_variation returned, the row of the variation has the
\* original entry's id as parent_id, as the returned object has.
VariationParentPersisted ==
    (last.op = "create_variation" /\ ~last.raised) =>
        /\ RowExists(last.id)
        /\ entries[last.id].parent_id = obj[last.task].parent_id
        /\ entries[last.id].parent_id = last.of

\* C8: after delete() of an entry no lineage edge has it as parent or as
\* child, and the entries that were linked to it are still there.
DeleteCascadesLineage ==
    (last.op = "delete" /\ last.result) =>
        /\ ~RowExists(last.id)
        /\ \A e \in lineage : e.parent_id # last.id /\ e.child_id # last.id
        /\ \A id \in last.linked : RowExists(id)

\* C9: every add_artifact succeeds, also for bytes that were ingested before
\* (for another entry, or by an earlier run), returns the content hash of
\* the bytes, and the blob is written once.
ArtifactDedup ==
    /\ last.op = "add_artifact" =>
          /\ ~last.raised
          /\ last.hash = Ref(sha256(last.data))
          /\ nwrites[last.hash.hex] = 1
    /\ (last.op = "execute" /\ last.how = "returned") => ~last.raised

\* C10: within one execute() call the status is set to running and then to
\* exactly one of completed and failed; never to failed after completed.
StatusMonotonic ==
    \A t \in Tasks :
        attempt[t] \in {<<>>, <<"running">>, <<"running", "completed">>,
                        <<"running", "failed">>}

\* C11: callers that store the same bytes at the same time all return the
\* one reference of those bytes and none raises, however their existence
\* checks and writes interleave; once none of them is inside its write the
\* blob holds exactly the bytes.
ConcurrentStoreSafe ==
    /\ \A c \in Callers : storing[c].at # "raised"
    /\ \A c, d \in Callers :
          (storing[c].at = "returned" /\ storing[d].at = "returned"
           /\ storing[c].data = storing[d].data) =>
              /\ storing[c].ref = storing[d].ref
              /\ storing[c].ref = Ref(sha256(storing[c].data))
    /\ \A c \in Callers :
          (/\ storing[c].at = "returned"
           /\ \A d \in Callers : storing[d].at \in {"checked", "opened"} =>
                                     storing[d].data # storing[c].data) =>
              retrieve(blobs, storing[c].ref) = {storing[c].data}

\* two callers passed the existence check before either wrote, both wrote
\* and both returned
ConcurrentStoreWitness ==
    \E c, d \in Callers :
        /\ c # d
        /\ storing[c].at = "returned" /\ storing[d].at = "returned"
        /\ storing[c].data = storing[d].data /\ storing[c].data # <<>>
        /\ nwrites[sha256(storing[c].data)] = 2

\* the ids exactly k lineage edges above and below an id, edge by edge
RECURSIVE Above(_, _, _)
Above(lin, id, k) ==
    IF k = 0 THEN {id}
    ELSE UNION {Above(lin, e.parent_id, k - 1) : e \in {x \in lin : x.child_id = id}}
RECURSIVE Below(_, _, _)
Below(lin, id, k) ==
    IF k = 0 THEN {id}
    ELSE UNION {Below(lin, e.child_id, k - 1) : e \in {x \in lin : x.parent_id = id}}

\* C12: the ancestors a traversal of depth d returns are exactly the entries
\* between 1 and d lineage edges above the entry, over edges of either
\* relationship type, and none farther away; the descendants are the same
\* below the entry.
LineageDepthBound ==
    /\ last.op = "get_ancestors" =>
          last.result = {x \in DOMAIN entries :
                            \E k \in 1..last.depth : x \in Above(lineage, last.id, k)}
    /\ last.op = "get_descendants" =>
          last.result = {x \in DOMAIN entries :
                            \E k \in 1..last.depth : x \in Below(lineage, last.id, k)}
    /\ last.op = "get_lineage" =>
          /\ last.ancestors = {x \in DOMAIN entries :
                                  \E k \in 1..last.depth : x \in Above(lineage, last.id, k)}
          /\ last.descendants = {x \in DOMAIN entries :
                                    \E k \in 1..last.depth : x \in Below(lineage, last.id, k)}

\* a chain of four entries over edges of both types, asked for two levels:
\* the two nearest ancestors are returned and the third is not
LineageDepthWitness ==
    /\ last.op = "get_ancestors" /\ last.depth = 2
    /\ Cardinality(last.result) = 2
    /\ Above(lineage, last.id, 3) \cap DOMAIN entries # {}
    /\ \E e, f \in lineage : /\ e.child_id = last.id /\ f.child_id = e.parent_id
                              /\ e.relationship_type # f.relationship_type

\* C13: the inputs of a variation hold every key of the original inputs and
\* of the overrides; a key that is not overridden keeps its original value,
\* a key whose original and override values are both objects holds their
\* key-by-key union with the override's keys winning (one level: the values
\* inside are taken whole), and any other overridden key holds the override.
InputMergeOneLevel ==
    (last.op = "create_variation" /\ ~last.raised) =>
        LET m == obj[last.task].inputs
            i == last.inputs
            o == last.overrides
        IN /\ DOMAIN m = (DOMAIN i) \cup (DOMAIN o)
           /\ \A k \in DOMAIN m :
                 IF k \notin DOMAIN o THEN m[k] = i[k]
                 ELSE IF k \in DOMAIN i /\ IsDict(i[k]) /\ IsDict(o[k])
                 THEN /\ IsDict(m[k])
                      /\ DOMAIN m[k].o = (DOMAIN i[k].o) \cup (DOMAIN o[k].o)
                      /\ \A j \in DOMAIN m[k].o :
                            m[k].o[j] = IF j \in DOMAIN o[k].o THEN o[k].o[j] ELSE i[k].o[j]
                 ELSE m[k] = o[k]
           /\ RowExists(last.id) => entries[last.id].inputs = m

\* an object override met an object: its key won, the other key of the
\* original object and the key that was not overridden were kept
InputMergeWitness ==
    /\ last.op = "create_variation" /\ ~last.raised
    /\ Has(last.inputs, "seed") /\ Has(last.inputs, "headers") /\ Has(last.overrides, "headers")
    /\ IsDict(last.inputs["headers"]) /\ IsDict(last.overrides["headers"])
    /\ obj[last.task].inputs["headers"].o["a"] = Num(2)
    /\ Has(obj[last.task].inputs["headers"].o, "n")
    /\ obj[last.task].inputs["seed"] = Num(1)

\* C14: a creation on a page that is there, without a parent or with one
\* that is there, succeeds; the new id is none of the existing ids, its row
\* and the returned object are in status created with the inputs as given
\* and empty outputs, execution and metrics, the other rows are as they
\* were, and the step adds exactly the edge (parent, new id, derives_from)
\* when a parent was given and no edge when none was.
CreationPersists ==
    [][last'.op = "create" =>
        /\ (~PageFkFails(last'.page)
             /\ (last'.parent = 0 \/ last'.parent \in DOMAIN entries)) => ~last'.raised
        /\ ~last'.raised =>
              LET id == last'.id
              IN /\ id \notin DOMAIN entries
                 /\ DOMAIN entries' = (DOMAIN entries) \cup {id}
                 /\ \A x \in DOMAIN entries : entries'[x] = entries[x]
                 /\ entries'[id].status = "created"
                 /\ entries'[id].inputs = last'.inputs
                 /\ entries'[id].outputs = EmptyDict
                 /\ entries'[id].execution = EmptyDict
                 /\ entries'[id].metrics = EmptyDict
                 /\ entries'[id].parent_id = last'.parent
                 /\ obj'[last'.task] = ObjOfRow(id, entries'[id])
                 /\ lineage \subseteq lineage'
                 /\ lineage' \ lineage =
                       IF last'.parent # 0
                       THEN {Edge(last'.parent, id, "derives_from")} ELSE {}
    ]_vars

\* an entry was created with a parent
CreationWitness ==
    /\ last.op = "create" /\ ~last.raised /\ last.parent # 0
    /\ RowExists(last.id) /\ RowExists(last.parent)
    /\ Edge(last.parent, last.id, "derives_from") \in lineage

\* C15: a creation on a page that is not there, or with a parent id that
\* names no entry, raises and adds no row and no edge; a creation without
\* a parent is not refused for it.
CreationRejectsDanglingReference ==
    [][last'.op = "create" =>
        /\ (PageFkFails(last'.page)
             \/ (last'.parent # 0 /\ last'.parent \notin DOMAIN entries)) =>
                /\ last'.raised
                /\ entries' = entries /\ lineage' = lineage /\ artifacts' = artifacts
        /\ (~PageFkFails(last'.page) /\ last'.parent = 0) => ~last'.raised
    ]_vars

\* creations were refused for a missing parent on a page that is there
CreationRejectsWitness ==
    /\ last.op = "create" /\ last.raised
    /\ ~PageFkFails(last.page) /\ last.parent # 0 /\ ~RowExists(last.parent)
    /\ entries # EmptyDict

\* C16: a delete() of an entry leaves the content store as it was: every
\* blob and thumbnail is still there and every blob retrieves the bytes it
\* did; the entry's row and its artifact rows are gone.
DeleteKeepsBlobs ==
    [][last'.op = "delete" =>
        /\ blobs' = blobs /\ thumbs' = thumbs
        /\ \A h \in DOMAIN blobs : retrieve(blobs', Ref(h)) = {blobs[h]}
        /\ last'.result =>
              /\ last'.id \notin DOMAIN entries'
              /\ \A a \in artifacts' : a.entry_id # last'.id
    ]_vars

\* an entry with an artifact was deleted: the blob is there, no artifact row
\* names it
DeleteKeepsBlobsWitness ==
    /\ last.op = "delete" /\ last.result
    /\ \E h \in DOMAIN blobs : h \in thumbs /\ \A a \in artifacts : a.hash.hex # h

ThumbnailNonFatal ==
    last.op = "store" =>
        /\ (IsImage(last.mime) /\ ~last.decodes) =>
              /\ ~last.raised
              /\ last.ref = Ref(sha256(last.data))
              /\ retrieve(blobs, last.ref) = {last.data}
              /\ last.thumbnailed = {}
        /\ ~IsImage(last.mime) => (~last.raised /\ last.thumbnailed = {})

\* an image that does not decode was stored first of its content
ThumbnailNonFatalWitness ==
    /\ last.op = "store" /\ IsImage(last.mime) /\ ~last.decodes /\ last.wrote
    /\ get_thumbnail(thumbs, last.ref) = {}
    /\ last.data # <<>>

\* C19: delete(ref) returns true exactly when the blob was there before the
\* call; after it exists(ref) is false and retrieve, get_thumbnail and
\* get_size find nothing, for the reference with and without its prefix; a
\* delete of the same reference right after returns false.
BlobDelete ==
    [][last'.op = "delete_blob" =>
        /\ last'.result = exists(blobs, last'.ref)
        /\ \A r \in {Ref(StripPrefix(last'.ref)), Bare(StripPrefix(last'.ref))} :
              /\ ~exists(blobs', r)
              /\ retrieve(blobs', r) = {}
              /\ get_thumbnail(thumbs', r) = {}
              /\ get_size(blobs', r) = {}
        /\ last'.again => ~last'.result
        /\ \A h \in (DOMAIN blobs) \ {StripPrefix(last'.ref)} :
              retrieve(blobs', Ref(h)) = retrieve(blobs, Ref(h))
    ]_vars

\* a reference was deleted twice in a row while other blobs and thumbnails
\* are there
BlobDeleteWitness ==
    /\ last.op = "delete_blob" /\ last.again /\ ~last.result
    /\ blobs # EmptyDict /\ thumbs # {}

\* C20: a lookup returns the implementation most recently registered for
\* the type and fails for a type never registered: at first exactly the
\* built-in types resolve, a register call makes its type resolve to its
\* implementation and changes no other type, and nothing else changes what
\* a type resolves to.  has(t) is true exactly when the lookup of t succeeds
\* and exactly when t is among the listed types.
IntegrationDispatch ==
    /\ \A u \in RegistryTypes : (registry_get(integrations, u) # {}) = (u \in Registered)
    /\ [](last.op = "resolve" =>
             /\ last.has = (last.result # {})
             /\ last.has = (last.type \in last.listed)
             /\ last.result = registry_get(integrations, last.type))
    /\ [][/\ last'.op = "register" =>
                /\ registry_get(integrations', last'.type) = {last'.impl}
                /\ \A u \in RegistryTypes \ {last'.type} :
                      registry_get(integrations', u) = registry_get(integrations, u)
          /\ last'.op # "register" =>
                \A u \in RegistryTypes :
                    registry_get(integrations', u) = registry_get(integrations, u)
       ]_vars

\* a type registered twice with different implementations resolves to one
\* that is not the built-in one, and a type that was never built in resolves
IntegrationDispatchWitness ==
    /\ last.op = "resolve" /\ last.type = "custom"
    /\ last.result # {} /\ last.result # {BuiltIns["custom"]}
    /\ has_integration(integrations, "shell")

\* C21: merge_inputs_with_defaults returns, over the defaults it read for
\* the integration type, every key of the defaults and of the inputs: a key
\* of the inputs holds the input's value, or the one-level union of the two
\* objects with the input's keys winning when default and input are both
\* objects; a key of the defaults alone holds the default; without defaults
\* the inputs come back as they are.
DefaultsMerge ==
    last.op = "merge_defaults" =>
        LET d == last.defaults
            i == last.inputs
            m == last.result
        IN /\ d = get_integration_variables(variables, last.type) \/ last.type = ""
           /\ d = EmptyDict => m = i
           /\ DOMAIN m = (DOMAIN d) \cup (DOMAIN i)
           /\ \A k \in DOMAIN m :
                 IF k \notin DOMAIN i THEN m[k] = d[k]
                 ELSE IF k \in DOMAIN d /\ IsDict(d[k]) /\ IsDict(i[k])
                 THEN /\ IsDict(m[k])
                      /\ DOMAIN m[k].o = (DOMAIN d[k].o) \cup (DOMAIN i[k].o)
                      /\ \A j \in DOMAIN m[k].o :
                            m[k].o[j] = IF j \in DOMAIN i[k].o THEN i[k].o[j] ELSE d[k].o[j]
                 ELSE m[k] = i[k]

\* object defaults met object inputs under headers: the input's key won, the
\* input's other key was added, and a default the inputs lack was filled in
DefaultsMergeWitness ==
    /\ last.op = "merge_defaults"
    /\ Has(last.defaults, "headers") /\ IsDict(last.defaults["headers"])
    /\ Has(last.inputs, "headers") /\ IsDict(last.inputs["headers"])
    /\ last.result["headers"].o["Authorization"] = Str("mine")
    /\ Has(last.result["headers"].o, "Accept")
    /\ \E k \in DOMAIN last.defaults : k \notin DOMAIN last.inputs

\* C22: per (integration_type, name) the table holds at most one variable;
\* set returns, and a get right after a set of the key returns, the value
\* that was set, unchanged, be it a string, an object or a list; a get right
\* after a delete of the key returns nothing; delete returns true exactly
\* when the variable was there.
VariableRoundTrip ==
    /\ last.op = "set_variable" =>
          /\ last.returned = last.value
          /\ get_integration_variable(variables, last.type, last.name) = {last.value}
    /\ (last.op = "get_variable" /\ last.after # {"other"}) => last.result = last.after
    /\ last.op = "delete_variable" =>
          get_integration_variable(variables, last.type, last.name) = {}


\* the ids the lineage table mentions, of entries that exist or existed
LineageIds == {e.parent_id : e \in lineage} \cup {e.child_id : e \in lineage}

\* id is reached from itself over one or more edges
OnCycle(id) == \E k \in 1..(MaxEntries + 1) : id \in Below(lineage, id, k)

\* C23: after any sequence of creations with and without a parent, variations
\* and deletions, no entry is reachable from itself along lineage edges: every
\* edge leads from an entry that existed to one created after it
LineageAcyclic ==
    /\ \A id \in LineageIds \cup DOMAIN entries : ~OnCycle(id)
    /\ \A e \in lineage : e.parent_id < e.child_id

\* a deletion has happened and the table still holds an edge
LineageAcyclicWitness ==
    /\ last.op = "delete" /\ last.result
    /\ lineage # {}
    /\ \E e \in lineage : e.child_id \in DOMAIN entries


\* C24: the list Entry.get_lineage returns holds every entry as many times
\* as the list of DatabaseManager.get_ancestors / get_descendants for the
\* same entry and depth
TraversalsAgree ==
    last.op = "list_lineage" =>
        /\ last.ancestors = ManagerList(lineage, entries, Only(last.id), last.depth, TRUE)
        /\ last.descendants = ManagerList(lineage, entries, Only(last.id), last.depth, FALSE)


\* C25: while callers store, retrieve(ref) returns nothing or the complete
\* bytes whose digest is ref, and a store call whose existence check finds
\* the blob there finds it completely written
NoPartialBlob ==
    [][/\ last'.op = "retrieve" =>
              \A b \in last'.result : sha256(b) = StripPrefix(last'.ref)
       /\ \A c \in Callers :
              (storing[c].at # "written" /\ storing'[c].at = "written"
               /\ storing[c].at # "opened") =>
                  blobs[sha256(storing'[c].data)] = storing'[c].data]_vars


\* C26: an execution record whose status is success has no error field, in
\* the persisted row and in the object of the caller, also when an earlier
\* attempt on the entry failed
SuccessCarriesNoError ==
    /\ \A id \in DOMAIN entries :
          (Has(entries[id].execution, "status")
           /\ entries[id].execution.status = "success") =>
              ~Has(entries[id].execution, "error")
    /\ \A t \in Tasks :
          (obj[t].id # 0 /\ Has(obj[t].execution, "status")
           /\ obj[t].execution.status = "success") =>
              ~Has(obj[t].execution, "error")


\* C27: when execute() ends failed, the persisted outputs of the entry and
\* the artifact table are what they were before the call
FailedAttemptLeavesNothing ==
    [][(last'.op = "execute" /\ last'.raised
        /\ obj'[last'.task].id \in DOMAIN entries
        /\ obj'[last'.task].id \in DOMAIN entries') =>
           /\ entries'[obj'[last'.task].id].outputs = entries[obj'[last'.task].id].outputs
           /\ artifacts' = artifacts]_vars


Terminal == {"completed", "failed"}

\* C28: of the executions of one entry by callers with their own loaded
\* objects, each whose integration returns or raises leaves a terminal status
\* in the row when it ends, and when none is in progress any more the status
\* in the row is completed or failed, not running
ConcurrentExecutionsEnd ==
    /\ \A t \in Executors :
          (pc[t] = "awaiting") ~>
              (last.op = "execute" /\ last.task = t /\ entries[1].status \in Terminal)
    /\ []((runs > 0 /\ \A t \in Executors : pc[t] = "idle") =>
              entries[1].status \in Terminal)

\* one execution has ended while another, begun before that end, is still
\* inside its integration
ConcurrentExecutionsWitness ==
    \E a, b \in Executors :
        /\ a # b /\ obj[a].id = 1 /\ obj[b].id = 1
        /\ pc[a] = "idle" /\ Len(attempt[a]) = 2
        /\ pc[b] = "awaiting"
        /\ entries[1].status \in Terminal


\* C29: the end of execute() leaves the title in the row as it finds it: a
\* title another caller persisted with update() while the execution was
\* inside its integration is in the row after the execution
ExecuteKeepsTitle ==
    [][last'.op = "execute" => entries'[1].title = entries[1].title]_vars


\* C30: the entry_id of every artifact row names a row of the entries table
ArtifactOwnerLives == \A a \in artifacts : a.entry_id \in DOMAIN entries

====
